---- MODULE Spec2Model ----
(***************************************************************************)
(* A model of the RootStore of minichart-grid (src/unnamed/part_000): the  *)
(* candle pipeline (subscription lifecycle, historical fetches, the merge  *)
(* of streamed candles, lodash throttle gates, the volume anomaly check    *)
(* and the alert log) and the symbol ranking.                              *)
(*                                                                         *)
(* Arrays and candle objects are JavaScript references: they live in a     *)
(* heap (arrays, objects) and the store's fields hold ids, so that the     *)
(* in-place push / Object.assign of the stream callback is visible through *)
(* every alias.  Id 0 stands for undefined.  Heaps are kept per symbol:    *)
(* every series reference of the store is keyed by symbol.                 *)
(*                                                                         *)
(* Time is relative: every throttle gate keeps the time since its last     *)
(* call and its last invocation, saturated at its wait, and the time left  *)
(* on its timer.                                                           *)
(***************************************************************************)
EXTENDS Integers, Sequences, FiniteSets, TLC

VARIABLES
  ready,                      \* #init has got past its await
  interval,                   \* this.interval
  throttleDelay,              \* this.throttleDelay
  anomalyRatio,               \* +localStorage.minichartsVolumeAnomalyAlertsRatio
  candlesSize,                \* +localStorage.minichartsVolumeAnomalyAlertsCandlesSize || 0
  futuresExchangeSymbolsMap,  \* the loaded symbols in key (load) order
  symbols,                    \* this.symbols
  sortBy,                     \* this.sortBy
  sortDirection,              \* this.sortDirection
  volumes,                    \* #volumes
  priceChangePercents,        \* #priceChangePercents
  engine,                     \* the JavaScript engine running Array.prototype.sort
  arrays,                     \* heap: per symbol, array id -> sequence of object ids
  objects,                    \* heap: per symbol, object id -> candle
  allCandles,                 \* #allCandles: symbol -> array id (the slow series)
  realTimeCandles,            \* this.realTimeCandles: symbol -> array id (the live series)
  subs,                       \* every combined subscription created so far
  allSymbolsUnsubscribe,      \* #allSymbolsUnsubscribe: the subscription it tears down
  gens,                       \* every generation of throttled listeners created so far
  throttledListeners,         \* #throttledListeners: the generation it holds
  volumeAnomalies,            \* #volumeAnomalies: symbol -> anomaly key
  alertLog,                   \* this.alertLog
  alerted,                    \* number of calls of triggerAlert so far
  queue,                      \* stream messages received and not yet delivered
  sent,                       \* number of stream messages received so far
  peakActive,                 \* most subscriptions active at one instant of the last step
  fired,                      \* per symbol, the anomaly keys that triggered an alert, in order
  window                      \* per generation and symbol, the calls and propagations of the gate's window

vars == <<ready, interval, throttleDelay, anomalyRatio, candlesSize,
          futuresExchangeSymbolsMap, symbols, sortBy, sortDirection, volumes,
          priceChangePercents, engine, arrays, objects, allCandles,
          realTimeCandles, subs, allSymbolsUnsubscribe, gens, throttledListeners,
          volumeAnomalies, alertLog, alerted, queue, sent, peakActive, fired, window>>

sortVars == <<futuresExchangeSymbolsMap, symbols, sortBy, sortDirection, volumes,
              priceChangePercents, engine>>

(***************************************************************************)
(* Bounds and input domains                                                *)
(***************************************************************************)
MaxMsgs == 2          \* stream messages received in one run
MaxSubs == 2          \* combined subscriptions created in one run
MaxGens == 2          \* generations of throttled listeners created in one run
MaxQueue == 1         \* stream messages waiting in the event queue

Alphabet == <<"A", "B", "C">>          \* the symbol ids, in lexicographic order
Symbols == {Alphabet[i] : i \in 1..Len(Alphabet)}
LoadedSymbols == <<"A">>               \* api.futuresExchangeInfo() of the candle pipeline, in load order
RankedSymbols == <<"B", "C", "A">>     \* api.futuresExchangeInfo() of the ranking, in load order
Intervals == {"1m", "5m"}
Delays == {1, 2}
OpenTimes == {1, 2, 3}
VolumeStrings == {<<"1">>, <<"5">>}
ClosePrice == <<"7">>

(***************************************************************************)
(* JavaScript numbers and the unary + conversion                           *)
(*                                                                         *)
(* The API delivers numbers as strings; a string is a sequence of          *)
(* characters, a number is a record that may be NaN.                       *)
(***************************************************************************)
Num(v) == [nan |-> FALSE, v |-> v]
NaN == [nan |-> TRUE, v |-> 0]
Undefined == <<"undefined">>

DigitChars == <<"0", "1", "2", "3", "4", "5", "6", "7", "8", "9">>
IsDigit(c) == \E i \in 1..Len(DigitChars) : DigitChars[i] = c
DigitVal(c) == (CHOOSE i \in 1..Len(DigitChars) : DigitChars[i] = c) - 1
AllDigits(s) == \A i \in 1..Len(s) : IsDigit(s[i])

RECURSIVE Digits(_)
Digits(s) ==
  IF s = <<>> THEN 0
  ELSE 10 * Digits(SubSeq(s, 1, Len(s) - 1)) + DigitVal(s[Len(s)])

\* +s: the empty string is 0, a decimal numeral (with an optional sign) its
\* value, everything else (undefined included) NaN.
ToNumber(s) ==
  IF s = <<>> THEN Num(0)
  ELSE IF s[1] = "-" /\ Len(s) > 1 /\ AllDigits(Tail(s)) THEN Num(0 - Digits(Tail(s)))
  ELSE IF AllDigits(s) THEN Num(Digits(s))
  ELSE NaN

\* x || 0 on a number: NaN and 0 are falsy.
OrZero(x) == IF x.nan THEN Num(0) ELSE x

\* a > b on numbers: false when either is NaN.
Greater(a, b) == ~a.nan /\ ~b.nan /\ a.v > b.v

Plus(a, b) == IF a.nan \/ b.nan THEN NaN ELSE Num(a.v + b.v)

Min(a, b) == IF a < b THEN a ELSE b
Max(a, b) == IF a > b THEN a ELSE b
Last(s) == s[Len(s)]
Reverse(s) == [i \in 1..Len(s) |-> s[Len(s) + 1 - i]]
Range(s) == {s[i] : i \in 1..Len(s)}
InsertAt(s, k, x) == SubSeq(s, 1, k) \o <<x>> \o SubSeq(s, k + 1, Len(s))

(***************************************************************************)
(* Array.prototype.sort                                                    *)
(*                                                                         *)
(* The comparators of #sortSymbols never return 0, so for equal keys they  *)
(* are inconsistent and the order of the result is the engine's: the       *)
(* engines are modelled by the algorithm each runs on a short array, and   *)
(* the engine is an input.  cmp[a][b] is comparefn(a, b).                  *)
(***************************************************************************)
Engines == {"v8", "spidermonkey", "jsc"}

\* V8 (TimSort, one run of minimum length): the leading run is counted, and
\* reversed when strictly descending.
RECURSIVE V8RunEnd(_, _, _, _)
V8RunEnd(a, idx, isDescending, cmp) ==
  IF idx > Len(a) THEN idx - 1
  ELSE IF isDescending /\ cmp[a[idx]][a[idx - 1]] >= 0 THEN idx - 1
  ELSE IF ~isDescending /\ cmp[a[idx]][a[idx - 1]] < 0 THEN idx - 1
  ELSE V8RunEnd(a, idx + 1, isDescending, cmp)

\* V8's binary insertion: the place of pivot in a[left .. right - 1].
RECURSIVE V8Bisect(_, _, _, _, _)
V8Bisect(a, pivot, left, right, cmp) ==
  IF left < right
  THEN LET mid == left + ((right - left) \div 2)
       IN IF cmp[pivot][a[mid]] < 0
          THEN V8Bisect(a, pivot, left, mid, cmp)
          ELSE V8Bisect(a, pivot, mid + 1, right, cmp)
  ELSE left

RECURSIVE V8Insertion(_, _, _)
V8Insertion(sorted, rest, cmp) ==
  IF rest = <<>> THEN sorted
  ELSE LET left == V8Bisect(sorted, Head(rest), 1, Len(sorted) + 1, cmp)
       IN V8Insertion(InsertAt(sorted, left - 1, Head(rest)), Tail(rest), cmp)

V8Sort(a, cmp) ==
  IF Len(a) < 2 THEN a
  ELSE LET isDescending == cmp[a[2]][a[1]] < 0
           runLength == V8RunEnd(a, 3, isDescending, cmp)
           run == IF isDescending THEN Reverse(SubSeq(a, 1, runLength))
                  ELSE SubSeq(a, 1, runLength)
       IN V8Insertion(run, SubSeq(a, runLength + 1, Len(a)), cmp)

\* SpiderMonkey (insertion sort below 24 elements): item moves left past
\* every element that compares greater.
RECURSIVE SMPlace(_, _, _, _)
SMPlace(sorted, item, j, cmp) ==
  IF j >= 1 /\ cmp[sorted[j]][item] > 0 THEN SMPlace(sorted, item, j - 1, cmp) ELSE j

RECURSIVE SMInsertion(_, _, _)
SMInsertion(sorted, rest, cmp) ==
  IF rest = <<>> THEN sorted
  ELSE SMInsertion(InsertAt(sorted, SMPlace(sorted, Head(rest), Len(sorted), cmp), Head(rest)),
                   Tail(rest), cmp)

SMSort(a, cmp) == IF Len(a) < 2 THEN a ELSE SMInsertion(<<a[1]>>, Tail(a), cmp)

\* JavaScriptCore (bottom-up merge sort): the right element is taken when
\* comparefn(right, left) < 0.
RECURSIVE JSCMerge(_, _, _)
JSCMerge(left, right, cmp) ==
  IF right = <<>> THEN left
  ELSE IF left = <<>> THEN right
  ELSE IF cmp[right[1]][left[1]] < 0
       THEN <<right[1]>> \o JSCMerge(left, Tail(right), cmp)
       ELSE <<left[1]>> \o JSCMerge(Tail(left), right, cmp)

RECURSIVE JSCPass(_, _, _, _)
JSCPass(src, srcIndex, width, cmp) ==
  IF srcIndex > Len(src) THEN <<>>
  ELSE LET leftEnd == Min(srcIndex + width - 1, Len(src))
           rightEnd == Min(srcIndex + 2 * width - 1, Len(src))
       IN JSCMerge(SubSeq(src, srcIndex, leftEnd), SubSeq(src, leftEnd + 1, rightEnd), cmp)
            \o JSCPass(src, srcIndex + 2 * width, width, cmp)

RECURSIVE JSCSort(_, _, _)
JSCSort(a, width, cmp) ==
  IF width >= Len(a) THEN a ELSE JSCSort(JSCPass(a, 1, width, cmp), 2 * width, cmp)

ArraySort(e, a, cmp) ==
  CASE e = "v8" -> V8Sort(a, cmp)
    [] e = "spidermonkey" -> SMSort(a, cmp)
    [] e = "jsc" -> JSCSort(a, 1, cmp)

(***************************************************************************)
(* #sortSymbols                                                            *)
(***************************************************************************)
SortBys == {"none", "alphabetically", "volume", "volume_change"}
SortDirections == {1, -1}

AlphabetIndex(x) == CHOOSE i \in 1..Len(Alphabet) : Alphabet[i] = x

\* a > b on symbol ids.
StringGreater(a, b) == AlphabetIndex(a) > AlphabetIndex(b)

\* (a, b) => (a > b ? this.sortDirection : -this.sortDirection)
CompareSymbols(a, b, direction) == IF StringGreater(a, b) THEN direction ELSE 0 - direction

\* A comparator that answers 0 for equal keys.
CompareNumbersWithTies(x, y, direction) ==
  IF Greater(x, y) THEN direction ELSE IF Greater(y, x) THEN 0 - direction ELSE 0

\* (a, b) => (a[1] > b[1] ? this.sortDirection : -this.sortDirection)
CompareNumbers(x, y, direction) == IF Greater(x, y) THEN direction ELSE 0 - direction

\* +map[symbol] || 0
MetricOf(map, symbol) == OrZero(ToNumber(map[symbol]))

\* The value #sortSymbols assigns to this.symbols; "throw" when it throws.
SortSymbols(e, by, direction, syms, map, vols, changes) ==
  CASE by = "none" ->
         IF direction = 1 THEN Reverse(map) ELSE map
    [] by = "alphabetically" ->
         ArraySort(e, syms, [a \in Symbols |-> [b \in Symbols |-> CompareSymbols(a, b, direction)]])
    [] by = "volume" ->
         ArraySort(e, syms, [a \in Symbols |-> [b \in Symbols |->
                                CompareNumbers(MetricOf(vols, a), MetricOf(vols, b), direction)]])
    [] by = "volume_change" ->
         ArraySort(e, syms, [a \in Symbols |-> [b \in Symbols |->
                                CompareNumbers(MetricOf(changes, a), MetricOf(changes, b), direction)]])
    [] OTHER -> syms

\* The default branch: throw new Error(`sortBy ... is not supported`).
SortThrows(by) == by \notin SortBys

(***************************************************************************)
(* The heap                                                                *)
(***************************************************************************)
Candle(time, itv, volume) ==
  [time |-> time, interval |-> itv, volume |-> volume, close |-> ClosePrice]

\* The candles of array id of symbol s, as values.
Series(arrs, objs, s, id) == [i \in 1..Len(arrs[s][id]) |-> objs[s][arrs[s][id][i]]]
OpenTimesOf(arrs, objs, s, id) == [i \in 1..Len(arrs[s][id]) |-> objs[s][arrs[s][id][i]].time]

(***************************************************************************)
(* lodash throttle(func, wait): debounce with leading, trailing and        *)
(* maxWait = wait.  timerId is the time left on the timer (-1: no timer),  *)
(* sinceCall and sinceInvoke are time - lastCallTime and                   *)
(* time - lastInvokeTime saturated at wait, lastArgs the pending payload.  *)
(* Each operator returns the gate and the payload func is invoked with     *)
(* (0: not invoked).                                                       *)
(***************************************************************************)
NewGate(wait) ==
  [wait |-> wait, timerId |-> -1, sinceCall |-> wait, sinceInvoke |-> wait, lastArgs |-> 0]

ShouldInvoke(g) == g.sinceCall >= g.wait \/ g.sinceInvoke >= g.wait

RemainingWait(g) == Min(g.wait - g.sinceCall, g.wait - g.sinceInvoke)

\* debounced() that keeps the first pending payload of a window instead of
\* the last.
DebouncedKeepsFirst(g, args) ==
  LET called == [g EXCEPT !.lastArgs = IF @ = 0 THEN args ELSE @, !.sinceCall = 0]
  IN IF ShouldInvoke(g)
     THEN [gate |-> [called EXCEPT !.timerId = g.wait, !.sinceInvoke = 0, !.lastArgs = 0],
           out |-> args]
     ELSE IF g.timerId = -1
          THEN [gate |-> [called EXCEPT !.timerId = g.wait], out |-> 0]
          ELSE [gate |-> called, out |-> 0]

Debounced(g, args) ==
  LET called == [g EXCEPT !.lastArgs = args, !.sinceCall = 0]
  IN IF ShouldInvoke(g)
     THEN \* leadingEdge, or the timer is due and has not run yet: restart it
          [gate |-> [called EXCEPT !.timerId = g.wait, !.sinceInvoke = 0, !.lastArgs = 0],
           out |-> args]
     ELSE IF g.timerId = -1
          THEN [gate |-> [called EXCEPT !.timerId = g.wait], out |-> 0]
          ELSE [gate |-> called, out |-> 0]

\* A timer callback without the trailing edge: the pending payload is dropped.
TimerExpiredDropsPending(g) ==
  IF ShouldInvoke(g)
  THEN [gate |-> [g EXCEPT !.timerId = -1, !.lastArgs = 0], out |-> 0]
  ELSE [gate |-> [g EXCEPT !.timerId = RemainingWait(g)], out |-> 0]

TimerExpired(g) ==
  IF ShouldInvoke(g)
  THEN \* trailingEdge
       [gate |-> [g EXCEPT !.timerId = -1, !.lastArgs = 0,
                           !.sinceInvoke = IF g.lastArgs # 0 THEN 0 ELSE @],
        out |-> g.lastArgs]
  ELSE [gate |-> [g EXCEPT !.timerId = RemainingWait(g)], out |-> 0]

Elapse(g) ==
  [g EXCEPT !.sinceCall = Min(@ + 1, g.wait),
            !.sinceInvoke = Min(@ + 1, g.wait),
            !.timerId = IF @ > 0 THEN @ - 1 ELSE @]

\* The window of a gate, for the record: from the arming of its timer to the
\* timer's expiry.
NoWindow == [leading |-> FALSE, calls |-> 0, props |-> 0, last |-> 0, lastProp |-> 0]

WindowOnCall(w, g, res, args) ==
  IF g.timerId = -1
  THEN [w EXCEPT !.cur = [leading |-> res.out # 0, calls |-> 1,
                          props |-> IF res.out # 0 THEN 1 ELSE 0,
                          last |-> args, lastProp |-> res.out]]
  ELSE IF res.out # 0
  THEN [cur |-> [leading |-> TRUE, calls |-> 1, props |-> 1, last |-> args, lastProp |-> res.out],
        done |-> [w.cur EXCEPT !.calls = @ + 1, !.props = @ + 1,
                               !.last = args, !.lastProp = res.out]]
  ELSE [w EXCEPT !.cur.calls = @ + 1, !.cur.last = args]

WindowOnTimer(w, res) ==
  IF res.gate.timerId = -1
  THEN [cur |-> NoWindow,
        done |-> [w.cur EXCEPT !.props = IF res.out # 0 THEN @ + 1 ELSE @,
                               !.lastProp = IF res.out # 0 THEN res.out ELSE @]]
  ELSE w

(***************************************************************************)
(* #createThrottledListeners                                               *)
(***************************************************************************)
CreateThrottledListeners(G, syms, delay) ==
  Append(G, [symbols |-> Range(syms),
             listeners |-> [s \in Symbols |-> NewGate(delay)]])

\* this.#throttledListeners[symbol]?.(candles) on generation tl of G.
HasListener(G, tl, s) == tl # 0 /\ s \in G[tl].symbols

CallListener(G, tl, s, args) ==
  IF HasListener(G, tl, s)
  THEN LET res == Debounced(G[tl].listeners[s], args)
       IN [gens |-> [G EXCEPT ![tl].listeners[s] = res.gate], out |-> res.out]
  ELSE [gens |-> G, out |-> 0]

CallWindow(W, G, tl, s, args) ==
  IF HasListener(G, tl, s)
  THEN [W EXCEPT ![tl][s] = WindowOnCall(@, G[tl].listeners[s],
                                         Debounced(G[tl].listeners[s], args), args)]
  ELSE W

\* this.#allCandles[symbol] = candles, when the listener invoked func.
Propagate(slow, s, out) == IF out # 0 THEN [slow EXCEPT ![s] = out] ELSE slow

(***************************************************************************)
(* #createSubscription and #allSymbolsSubscribe                            *)
(***************************************************************************)
ActiveCount(S) == Cardinality({k \in 1..Len(S) : S[k].active})

\* this.#allSymbolsUnsubscribe?.()
Unsubscribe(S, cur) == IF cur # 0 THEN [S EXCEPT ![cur].active = FALSE] ELSE S

\* #allSymbolsSubscribe carrying the series of the previous subscription over.
AllSymbolsSubscribeKeepsData(S, syms, itv) ==
  Append(S, [interval |-> itv,
             symbols |-> Range(syms),
             active |-> TRUE,
             allCandlesData |-> IF S = <<>> THEN [s \in Symbols |-> 0]
                                ELSE S[Len(S)].allCandlesData,
             fetch |-> [s \in Symbols |-> IF s \in Range(syms) THEN "pending" ELSE "none"],
             seen |-> [s \in Symbols |-> {}],
             inOrder |-> [s \in Symbols |-> TRUE]])

\* this.#allSymbolsSubscribe(): one historical fetch per symbol and the
\* combined subscription, with its own allCandlesData.
AllSymbolsSubscribe(S, syms, itv) ==
  Append(S, [interval |-> itv,
             symbols |-> Range(syms),
             active |-> TRUE,
             allCandlesData |-> [s \in Symbols |-> 0],
             fetch |-> [s \in Symbols |-> IF s \in Range(syms) THEN "pending" ELSE "none"],
             seen |-> [s \in Symbols |-> {}],
             inOrder |-> [s \in Symbols |-> TRUE]])

\* #createSubscription subscribing before it unsubscribes.
CreateSubscriptionSubscribesFirst(S, cur, syms, itv) ==
  LET made == AllSymbolsSubscribe(S, syms, itv)
      torn == Unsubscribe(made, cur)
  IN [subs |-> torn, peak |-> Max(ActiveCount(made), ActiveCount(torn))]

\* The subscriptions after #createSubscription, and the most that were
\* active at one instant of it.
CreateSubscription(S, cur, syms, itv) ==
  LET torn == Unsubscribe(S, cur)
      made == AllSymbolsSubscribe(torn, syms, itv)
  IN [subs |-> made, peak |-> Max(ActiveCount(torn), ActiveCount(made))]

(***************************************************************************)
(* triggerAlert                                                            *)
(***************************************************************************)
MAX_LOG_SIZE == 100
AlertTypes == {"PRICE_UP", "PRICE_DOWN", "VOLUME_ANOMALY"}

Slice(xs, n) == SubSeq(xs, 1, Min(n, Len(xs)))

\* The entry triggerAlert builds from the live series (timeISO is the wall
\* clock, which the model does not keep): { close: 0, volume: 0 } when the
\* symbol has no candle.
LogItem(type, s, live, arrs, objs) ==
  LET candles == IF live[s] = 0 THEN <<>> ELSE Series(arrs, objs, s, live[s])
  IN [type |-> type, symbol |-> s,
      price |-> IF candles = <<>> THEN <<"0">> ELSE Last(candles).close,
      volume |-> IF candles = <<>> THEN <<"0">> ELSE Last(candles).volume]

\* A log that grows at its end.
TriggerAlertLogAppends(log, item) == Slice(log \o <<item>>, MAX_LOG_SIZE)

\* [logItem, ...this.alertLog].slice(0, MAX_LOG_SIZE)
TriggerAlertLog(log, item) == Slice(<<item>> \o log, MAX_LOG_SIZE)

\* The log the constructor reads from storage: what n earlier calls of
\* triggerAlert left there, the newest first.
RECURSIVE Decimal(_)
Decimal(n) ==
  IF n < 10 THEN <<DigitChars[n + 1]>> ELSE Decimal(n \div 10) \o <<DigitChars[(n % 10) + 1]>>
PersistedItem(i) ==
  [type |-> "PRICE_DOWN", symbol |-> "C", price |-> Decimal(i), volume |-> <<"0">>]
PersistedLog(n) == [i \in 1..n |-> PersistedItem(n + 1 - i)]
PersistedSizes == {0, 1, MAX_LOG_SIZE - 1, MAX_LOG_SIZE}

(***************************************************************************)
(* The futuresCandlesSubscribe callback                                    *)
(***************************************************************************)
\* The merge with >= for ===: a candle of the last open time is pushed.
MergeCandleAlwaysPushes(arrs, objs, s, data, candle) ==
  LET pushed == Append(arrs[s][data], Len(objs[s]) + 1)
  IN [arrays |-> [arrs EXCEPT ![s] = Append([@ EXCEPT ![data] = pushed], pushed)],
      objects |-> [objs EXCEPT ![s] = Append(@, candle)]]

\* Lines 224-230: the merge into data (in place) and the copy [...data].
\* The arrays and objects of symbol s afterwards; candlesData is the last array.
MergeCandle(arrs, objs, s, data, candle) ==
  LET arr == arrs[s][data]
  IN IF candle.time = objs[s][Last(arr)].time
     THEN \* Object.assign(data[data.length - 1], candle)
          [arrays |-> [arrs EXCEPT ![s] = Append(@, arr)],
           objects |-> [objs EXCEPT ![s][Last(arr)] = candle]]
     ELSE \* data.push(candle)
          LET pushed == Append(arr, Len(objs[s]) + 1)
          IN [arrays |-> [arrs EXCEPT ![s] = Append([@ EXCEPT ![data] = pushed], pushed)],
              objects |-> [objs EXCEPT ![s] = Append(@, candle)]]

\* candlesData.slice(-lastCandlesSize, -1)
CandlesToConsider(candlesData, lastCandlesSize) ==
  LET len == Len(candlesData)
      start == IF lastCandlesSize = 0 THEN 1 ELSE Max(len - lastCandlesSize, 0) + 1
  IN SubSeq(candlesData, start, len - 1)

\* candlesToConsider.reduce((p, c) => p + +c.volume, 0)
RECURSIVE SumVolumes(_)
SumVolumes(cs) ==
  IF cs = <<>> THEN Num(0)
  ELSE Plus(SumVolumes(SubSeq(cs, 1, Len(cs) - 1)), ToNumber(Last(cs).volume))

\* avg * anomalyRatio < +candle.volume, with avg = sum / length: 0 / 0 is
\* NaN and every comparison with NaN is false.
AboveAverage(cs, ratio, volume) ==
  LET sum == SumVolumes(cs)
      vol == ToNumber(volume)
  IN Len(cs) > 0 /\ ~sum.nan /\ ~vol.nan /\ sum.v * ratio.v < vol.v * Len(cs)

AnomalyKey(candle) == <<candle.interval, candle.time>>
NoKey == <<>>

\* Lines 238-247: isAnomaly.
IsAnomaly(ratio, size, anomalies, s, candlesData, candle) ==
  /\ ~ratio.nan /\ ratio.v > 0
  /\ anomalies[s] # AnomalyKey(candle)
  /\ AboveAverage(CandlesToConsider(candlesData, size), ratio, candle.volume)

(***************************************************************************)
(* The store after construction: #init waits for futuresExchangeInfo.      *)
(***************************************************************************)
\* api.futuresCandles results: candles of open times 1, 2, ... with these volumes.
Histories == {<<>>, << <<"1">> >>, << <<"5">>, <<"1">> >>}
AnomalySettings == {<<NaN, 0>>, <<Num(2), 0>>, <<Num(2), 1>>, <<Num(2), 2>>}

InitStore ==
  /\ ready = FALSE
  /\ futuresExchangeSymbolsMap = <<>>
  /\ symbols = <<>>
  /\ volumes = [s \in Symbols |-> Undefined]
  /\ priceChangePercents = [s \in Symbols |-> Undefined]
  /\ arrays = [s \in Symbols |-> <<>>]
  /\ objects = [s \in Symbols |-> <<>>]
  /\ allCandles = [s \in Symbols |-> 0]
  /\ realTimeCandles = [s \in Symbols |-> 0]
  /\ subs = <<>>
  /\ allSymbolsUnsubscribe = 0
  /\ gens = <<>>
  /\ throttledListeners = 0
  /\ volumeAnomalies = [s \in Symbols |-> NoKey]
  /\ alerted = 0
  /\ queue = <<>>
  /\ sent = 0
  /\ peakActive = 0
  /\ fired = [s \in Symbols |-> <<>>]
  /\ window = <<>>

\* The settings the constructor reads from storage, apart from those a
\* specification chooses.
InitSettings ==
  /\ InitStore
  /\ interval = "1m"
  /\ sortBy = "none"
  /\ sortDirection = -1
  /\ engine = "v8"
  /\ alertLog = <<>>

(***************************************************************************)
(* #init, after the await: the metadata arrived (ok) or the fetch failed.  *)
(***************************************************************************)
InitDone(ok, loaded) ==
  /\ ~ready
  /\ ready' = TRUE
  /\ LET map == IF ok THEN loaded ELSE futuresExchangeSymbolsMap
         syms == IF ~ok THEN symbols
                 ELSE IF SortThrows(sortBy) THEN loaded
                 ELSE SortSymbols(engine, sortBy, sortDirection, loaded, loaded,
                                  volumes, priceChangePercents)
         made == CreateSubscription(subs, allSymbolsUnsubscribe, syms, interval)
     IN /\ futuresExchangeSymbolsMap' = map
        /\ symbols' = syms
        /\ gens' = CreateThrottledListeners(gens, syms, throttleDelay)
        /\ throttledListeners' = Len(gens')
        /\ window' = Append(window, [s \in Symbols |-> [cur |-> NoWindow, done |-> NoWindow]])
        /\ subs' = made.subs
        /\ allSymbolsUnsubscribe' = Len(made.subs)
        /\ peakActive' = Max(peakActive, made.peak)
  /\ UNCHANGED <<interval, throttleDelay, anomalyRatio, candlesSize, sortBy, sortDirection,
                 volumes, priceChangePercents, engine, arrays, objects, allCandles,
                 realTimeCandles, volumeAnomalies, alertLog, alerted, queue, sent, fired>>

(***************************************************************************)
(* store.interval = itv: the listener of #init runs #createSubscription.   *)
(***************************************************************************)
SetInterval(itv) ==
  /\ itv # interval
  /\ interval' = itv
  /\ IF ready
     THEN /\ LET made == CreateSubscription(subs, allSymbolsUnsubscribe, symbols, itv)
             IN /\ subs' = made.subs
                /\ allSymbolsUnsubscribe' = Len(made.subs)
                /\ peakActive' = Max(peakActive, made.peak)
     ELSE UNCHANGED <<subs, allSymbolsUnsubscribe, peakActive>>
  /\ UNCHANGED <<ready, throttleDelay, anomalyRatio, candlesSize, sortVars, arrays, objects,
                 allCandles, realTimeCandles, gens, throttledListeners, volumeAnomalies,
                 alertLog, alerted, queue, sent, fired, window>>

(***************************************************************************)
(* store.throttleDelay = delay: the listener of #init runs                 *)
(* #createThrottledListeners.                                              *)
(***************************************************************************)
SetThrottleDelay(delay) ==
  /\ delay # throttleDelay
  /\ throttleDelay' = delay
  /\ IF ready
     THEN /\ gens' = CreateThrottledListeners(gens, symbols, delay)
          /\ throttledListeners' = Len(gens')
          /\ window' = Append(window, [s \in Symbols |-> [cur |-> NoWindow, done |-> NoWindow]])
     ELSE UNCHANGED <<gens, throttledListeners, window>>
  /\ UNCHANGED <<ready, interval, anomalyRatio, candlesSize, sortVars, arrays, objects,
                 allCandles, realTimeCandles, subs, allSymbolsUnsubscribe, volumeAnomalies,
                 alertLog, alerted, queue, sent, peakActive, fired>>

(***************************************************************************)
(* api.futuresCandles of subscription k for symbol s resolves with the     *)
(* candles of history (lines 205-207), or rejects (lines 208-211).         *)
(***************************************************************************)
\* A fetch whose result may be delivered again after it was applied.
HistoryArrivesAgain(k, s, history) ==
  /\ subs[k].fetch[s] \in {"pending", "done"}
  /\ LET first == Len(objects[s])
         candles == [i \in 1..Len(history) |-> first + i]
         id == Len(arrays[s]) + 1
         call == CallListener(gens, throttledListeners, s, id)
     IN /\ objects' = [objects EXCEPT ![s] =
                         @ \o [i \in 1..Len(history) |-> Candle(i, subs[k].interval, history[i])]]
        /\ arrays' = [arrays EXCEPT ![s] = Append(@, candles)]
        /\ subs' = [subs EXCEPT ![k].allCandlesData[s] = id,
                                ![k].fetch[s] = "done",
                                ![k].seen[s] = 1..Len(history)]
        /\ gens' = call.gens
        /\ window' = CallWindow(window, gens, throttledListeners, s, id)
        /\ allCandles' = Propagate(allCandles, s, call.out)
  /\ UNCHANGED <<ready, interval, throttleDelay, anomalyRatio, candlesSize, sortVars,
                 realTimeCandles, allSymbolsUnsubscribe, throttledListeners, volumeAnomalies,
                 alertLog, alerted, queue, sent, peakActive, fired>>

HistoryArrives(k, s, history) ==
  /\ subs[k].fetch[s] = "pending"
  /\ LET first == Len(objects[s])
         candles == [i \in 1..Len(history) |-> first + i]
         id == Len(arrays[s]) + 1
         call == CallListener(gens, throttledListeners, s, id)
     IN /\ objects' = [objects EXCEPT ![s] =
                         @ \o [i \in 1..Len(history) |-> Candle(i, subs[k].interval, history[i])]]
        /\ arrays' = [arrays EXCEPT ![s] = Append(@, candles)]
        /\ subs' = [subs EXCEPT ![k].allCandlesData[s] = id,
                                ![k].fetch[s] = "done",
                                ![k].seen[s] = 1..Len(history)]
        /\ gens' = call.gens
        /\ window' = CallWindow(window, gens, throttledListeners, s, id)
        /\ allCandles' = Propagate(allCandles, s, call.out)
  /\ UNCHANGED <<ready, interval, throttleDelay, anomalyRatio, candlesSize, sortVars,
                 realTimeCandles, allSymbolsUnsubscribe, throttledListeners, volumeAnomalies,
                 alertLog, alerted, queue, sent, peakActive, fired>>

HistoryFails(k, s) ==
  /\ subs[k].fetch[s] = "pending"
  /\ subs' = [subs EXCEPT ![k].fetch[s] = "failed"]
  /\ UNCHANGED <<ready, interval, throttleDelay, anomalyRatio, candlesSize, sortVars, arrays,
                 objects, allCandles, realTimeCandles, allSymbolsUnsubscribe, gens,
                 throttledListeners, volumeAnomalies, alertLog, alerted, queue, sent, peakActive,
                 fired, window>>

(***************************************************************************)
(* The combined stream of subscription k receives a candle: its callback   *)
(* is queued as an event.                                                  *)
(***************************************************************************)
StreamReceives(k, s, time, volume) ==
  /\ subs[k].active
  /\ s \in subs[k].symbols
  /\ sent' = sent + 1
  /\ queue' = Append(queue, [sub |-> k, symbol |-> s,
                             candle |-> Candle(time, subs[k].interval, volume)])
  /\ UNCHANGED <<ready, interval, throttleDelay, anomalyRatio, candlesSize, sortVars, arrays,
                 objects, allCandles, realTimeCandles, subs, allSymbolsUnsubscribe, gens,
                 throttledListeners, volumeAnomalies, alertLog, alerted, peakActive, fired, window>>

(***************************************************************************)
(* The callback of lines 218-254 runs on the first queued candle.          *)
(***************************************************************************)
\* if (!data) return; and data[data.length - 1].time of an empty data, which
\* throws a TypeError before anything is written.
CallbackStops(k, s) ==
  \/ subs[k].allCandlesData[s] = 0
  \/ arrays[s][subs[k].allCandlesData[s]] = <<>>

Callback(k, s, candle) ==
  LET data == subs[k].allCandlesData[s]
      merged == MergeCandle(arrays, objects, s, data, candle)
      candlesData == Len(merged.arrays[s])
      call == CallListener(gens, throttledListeners, s, candlesData)
      live == [realTimeCandles EXCEPT ![s] = candlesData]
      isAnomaly == IsAnomaly(anomalyRatio, candlesSize, volumeAnomalies, s,
                             Series(merged.arrays, merged.objects, s, candlesData), candle)
      lastTime == objects[s][Last(arrays[s][data])].time
  IN /\ arrays' = merged.arrays
     /\ objects' = merged.objects
     /\ subs' = [subs EXCEPT ![k].allCandlesData[s] = candlesData,
                             ![k].seen[s] = @ \cup {candle.time},
                             ![k].inOrder[s] = @ /\ candle.time >= lastTime]
     /\ realTimeCandles' = live
     /\ gens' = call.gens
     /\ window' = CallWindow(window, gens, throttledListeners, s, candlesData)
     /\ allCandles' = Propagate(allCandles, s, call.out)
     /\ IF isAnomaly
        THEN /\ volumeAnomalies' = [volumeAnomalies EXCEPT ![s] = AnomalyKey(candle)]
             /\ alertLog' = TriggerAlertLog(alertLog,
                               LogItem("VOLUME_ANOMALY", s, live, merged.arrays, merged.objects))
             /\ alerted' = alerted + 1
             /\ fired' = [fired EXCEPT ![s] = Append(@, AnomalyKey(candle))]
        ELSE UNCHANGED <<volumeAnomalies, alertLog, alerted, fired>>

Deliver ==
  /\ queue # <<>>
  /\ queue' = Tail(queue)
  /\ LET m == Head(queue)
     IN IF CallbackStops(m.sub, m.symbol)
        THEN UNCHANGED <<arrays, objects, subs, realTimeCandles, gens, window, allCandles,
                         volumeAnomalies, alertLog, alerted, fired>>
        ELSE Callback(m.sub, m.symbol, m.candle)
  /\ UNCHANGED <<ready, interval, throttleDelay, anomalyRatio, candlesSize, sortVars,
                 allSymbolsUnsubscribe, throttledListeners, sent, peakActive>>

(***************************************************************************)
(* store.triggerAlert(type, s), called by a chart of the grid.             *)
(***************************************************************************)
TriggerAlert(type, s) ==
  /\ alertLog' = TriggerAlertLog(alertLog, LogItem(type, s, realTimeCandles, arrays, objects))
  /\ alerted' = alerted + 1
  /\ UNCHANGED <<ready, interval, throttleDelay, anomalyRatio, candlesSize, sortVars,
                 arrays, objects, allCandles, realTimeCandles, subs, allSymbolsUnsubscribe,
                 gens, throttledListeners, volumeAnomalies, queue, sent, peakActive, fired,
                 window>>

(***************************************************************************)
(* store.sortBy = by and store.sortDirection = direction: the listeners of *)
(* the constructor run #sortSymbols (which throws on an unsupported        *)
(* sortBy, after the value is set).                                        *)
(***************************************************************************)
\* A re-sort that reads the maps as they were before the batch was assigned.
ResortedBeforeAssign(by, direction, vols, changes) ==
  IF SortThrows(by) THEN symbols
  ELSE SortSymbols(engine, by, direction, symbols, futuresExchangeSymbolsMap, volumes,
                   priceChangePercents)

Resorted(by, direction, vols, changes) ==
  IF SortThrows(by) THEN symbols
  ELSE SortSymbols(engine, by, direction, symbols, futuresExchangeSymbolsMap, vols, changes)

SetSortBy(by) ==
  /\ by # sortBy
  /\ sortBy' = by
  /\ symbols' = Resorted(by, sortDirection, volumes, priceChangePercents)
  /\ UNCHANGED <<ready, interval, throttleDelay, anomalyRatio, candlesSize,
                 futuresExchangeSymbolsMap, sortDirection, volumes, priceChangePercents,
                 engine, arrays, objects, allCandles, realTimeCandles, subs,
                 allSymbolsUnsubscribe, gens, throttledListeners, volumeAnomalies, alertLog, alerted,
                 queue, sent, peakActive, fired, window>>

SetSortDirection(direction) ==
  /\ direction # sortDirection
  /\ sortDirection' = direction
  /\ symbols' = Resorted(sortBy, direction, volumes, priceChangePercents)
  /\ UNCHANGED <<ready, interval, throttleDelay, anomalyRatio, candlesSize,
                 futuresExchangeSymbolsMap, sortBy, volumes, priceChangePercents,
                 engine, arrays, objects, allCandles, realTimeCandles, subs,
                 allSymbolsUnsubscribe, gens, throttledListeners, volumeAnomalies, alertLog, alerted,
                 queue, sent, peakActive, fired, window>>

(***************************************************************************)
(* The ticker stream of #volumeSubscribe delivers a batch: a quoteVolume   *)
(* and a priceChangePercent for each symbol of the batch.                  *)
(***************************************************************************)
TickerValues ==
  {<< <<"1", "0">>, <<"-", "5">> >>, << <<"2", "0">>, <<"2">> >>,
   << <<"3", "0">>, <<"2">> >>, << <<"x">>, <<>> >>}
Batches == UNION {[S -> TickerValues] : S \in (SUBSET Symbols) \ {{}}}

Ticker(batch) ==
  /\ ready
  /\ LET vols == [s \in Symbols |-> IF s \in DOMAIN batch THEN batch[s][1] ELSE volumes[s]]
         changes == [s \in Symbols |->
                       IF s \in DOMAIN batch THEN batch[s][2] ELSE priceChangePercents[s]]
     IN /\ volumes' = vols
        /\ priceChangePercents' = changes
        /\ symbols' = IF sortBy \in {"volume", "volume_change"}
                      THEN Resorted(sortBy, sortDirection, vols, changes)
                      ELSE symbols
  /\ UNCHANGED <<ready, interval, throttleDelay, anomalyRatio, candlesSize,
                 futuresExchangeSymbolsMap, sortBy, sortDirection, engine, arrays, objects,
                 allCandles, realTimeCandles, subs, allSymbolsUnsubscribe, gens,
                 throttledListeners, volumeAnomalies, alertLog, alerted, queue, sent, peakActive,
                 fired, window>>

(***************************************************************************)
(* The timer of the gate of symbol s in generation n runs: timerExpired.   *)
(***************************************************************************)
TimerFires(n, s) ==
  /\ s \in gens[n].symbols
  /\ gens[n].listeners[s].timerId = 0
  /\ LET res == TimerExpired(gens[n].listeners[s])
     IN /\ gens' = [gens EXCEPT ![n].listeners[s] = res.gate]
        /\ window' = [window EXCEPT ![n][s] = WindowOnTimer(@, res)]
        /\ allCandles' = Propagate(allCandles, s, res.out)
  /\ UNCHANGED <<ready, interval, throttleDelay, anomalyRatio, candlesSize, sortVars, arrays,
                 objects, realTimeCandles, subs, allSymbolsUnsubscribe, throttledListeners,
                 volumeAnomalies, alertLog, alerted, queue, sent, peakActive, fired>>

(***************************************************************************)
(* One unit of time passes (a timer that is due may run late).             *)
(***************************************************************************)
Tick ==
  /\ gens' = [n \in 1..Len(gens) |->
               [gens[n] EXCEPT !.listeners = [s \in Symbols |-> Elapse(gens[n].listeners[s])]]]
  /\ gens' # gens
  /\ UNCHANGED <<ready, interval, throttleDelay, anomalyRatio, candlesSize, sortVars, arrays,
                 objects, allCandles, realTimeCandles, subs, allSymbolsUnsubscribe,
                 throttledListeners, volumeAnomalies, alertLog, alerted, queue, sent, peakActive,
                 fired, window>>

(***************************************************************************)
(* The subscription lifecycle and the merge: startup, interval changes,    *)
(* historical fetches and streamed candles, with the anomaly check off and *)
(* no time passing (a gate invokes on its first call and holds the later   *)
(* ones).  The environment is bounded: so many subscriptions are created,  *)
(* so many candles are streamed and so many wait in the event queue.       *)
(***************************************************************************)
Init ==
  /\ InitSettings
  /\ throttleDelay = 2
  /\ anomalyRatio = NaN
  /\ candlesSize = 0

Next ==
  \/ \E ok \in BOOLEAN : InitDone(ok, LoadedSymbols)
  \/ \E itv \in Intervals : Len(subs) < MaxSubs /\ SetInterval(itv)
  \/ \E k \in 1..Len(subs), s \in Symbols, history \in Histories : HistoryArrives(k, s, history)
  \/ \E k \in 1..Len(subs), s \in Symbols : HistoryFails(k, s)
  \/ \E k \in 1..Len(subs), s \in Symbols, time \in OpenTimes :
        sent < MaxMsgs /\ Len(queue) < MaxQueue /\ StreamReceives(k, s, time, <<"1">>)
  \/ Deliver

Spec == Init /\ [][Next]_vars

(***************************************************************************)
(* The throttle gates: one subscription, its history and its streamed      *)
(* candles, with time passing, timers running and throttleDelay changing.  *)
(***************************************************************************)
ThrottleInit ==
  /\ InitSettings
  /\ throttleDelay \in Delays
  /\ anomalyRatio = NaN
  /\ candlesSize = 0

ThrottleNext ==
  \/ InitDone(TRUE, LoadedSymbols)
  \/ \E delay \in Delays : Len(gens) < MaxGens /\ SetThrottleDelay(delay)
  \/ \E k \in 1..Len(subs), s \in Symbols, history \in Histories : HistoryArrives(k, s, history)
  \/ \E k \in 1..Len(subs), s \in Symbols, time \in OpenTimes :
        sent < MaxMsgs /\ Len(queue) < MaxQueue /\ StreamReceives(k, s, time, <<"1">>)
  \/ Deliver
  \/ \E n \in 1..Len(gens), s \in Symbols : TimerFires(n, s)
  \/ Tick

ThrottleSpec == ThrottleInit /\ [][ThrottleNext]_vars

(***************************************************************************)
(* The throttle gates with interval and throttleDelay unchanged, under the *)
(* scheduling of the event loop: time passes, a timer that is due runs and *)
(* a queued callback is delivered.  The stream and the fetch owe nothing.  *)
(***************************************************************************)
LiveNext ==
  \/ InitDone(TRUE, LoadedSymbols)
  \/ \E k \in 1..Len(subs), s \in Symbols, history \in Histories : HistoryArrives(k, s, history)
  \/ \E k \in 1..Len(subs), s \in Symbols, time \in OpenTimes :
        sent < MaxMsgs /\ Len(queue) < MaxQueue /\ StreamReceives(k, s, time, <<"1">>)
  \/ Deliver
  \/ \E n \in 1..Len(gens), s \in Symbols : TimerFires(n, s)
  \/ Tick

LiveSpec ==
  /\ ThrottleInit
  /\ [][LiveNext]_vars
  /\ WF_vars(Deliver)
  /\ WF_vars(Tick)
  /\ \A n \in 1..MaxGens, s \in Symbols : WF_vars(n <= Len(gens) /\ TimerFires(n, s))

(***************************************************************************)
(* The anomaly check: interval changes, histories and streamed candles of  *)
(* two volumes, with the check on or off as the settings say and no time   *)
(* passing.                                                                *)
(***************************************************************************)
AnomalySubs == 3      \* combined subscriptions created in one run
AnomalyMsgs == 3      \* stream messages received in one run

AnomalyInit ==
  /\ InitSettings
  /\ throttleDelay = 2
  /\ \E a \in AnomalySettings : anomalyRatio = a[1] /\ candlesSize = a[2]

AnomalyNext ==
  \/ InitDone(TRUE, LoadedSymbols)
  \/ \E itv \in Intervals :
        ready /\ queue = <<>> /\ Len(subs) < AnomalySubs /\ SetInterval(itv)
  \/ \E k \in 1..Len(subs), s \in Symbols, history \in Histories \ {<<>>} :
        HistoryArrives(k, s, history)
  \/ \E k \in 1..Len(subs), s \in Symbols, time \in {2, 3}, volume \in VolumeStrings :
        sent < AnomalyMsgs /\ queue = <<>> /\ StreamReceives(k, s, time, volume)
  \/ Deliver

AnomalySpec == AnomalyInit /\ [][AnomalyNext]_vars

(***************************************************************************)
(* The ranking: startup, changes of sortBy and sortDirection and ticker    *)
(* batches, on any engine, from any persisted sortBy and sortDirection.    *)
(***************************************************************************)
SortInit ==
  /\ InitStore
  /\ interval = "1m"
  /\ throttleDelay = 2
  /\ anomalyRatio = NaN
  /\ candlesSize = 0
  /\ sortBy \in SortBys \cup {"unsupported"}
  /\ sortDirection \in SortDirections
  /\ engine \in Engines
  /\ alertLog = <<>>

SortNext ==
  \/ \E ok \in BOOLEAN : InitDone(ok, RankedSymbols)
  \/ \E by \in SortBys : SetSortBy(by)
  \/ \E direction \in SortDirections : SetSortDirection(direction)
  \/ \E batch \in Batches : Ticker(batch)

SortSpec == SortInit /\ [][SortNext]_vars

(***************************************************************************)
(* The alert log: a persisted log, then alerts of the charts and of the    *)
(* anomaly check on one subscription.                                      *)
(***************************************************************************)
MaxAlerts == 2
AlertMsgs == 2

AlertInit ==
  /\ InitStore
  /\ interval = "1m"
  /\ throttleDelay = 2
  /\ anomalyRatio = Num(2)
  /\ candlesSize = 2
  /\ sortBy = "none"
  /\ sortDirection = -1
  /\ engine = "v8"
  /\ alertLog \in {PersistedLog(n) : n \in PersistedSizes}

AlertNext ==
  \/ InitDone(TRUE, LoadedSymbols)
  \/ \E k \in 1..Len(subs), s \in Symbols, history \in Histories \ {<<>>} :
        HistoryArrives(k, s, history)
  \/ \E k \in 1..Len(subs), s \in Symbols, time \in {2, 3}, volume \in VolumeStrings :
        sent < AlertMsgs /\ queue = <<>> /\ StreamReceives(k, s, time, volume)
  \/ Deliver
  \/ \E type \in AlertTypes \ {"VOLUME_ANOMALY"}, s \in {"A", "B"} :
        alerted < MaxAlerts /\ TriggerAlert(type, s)

AlertSpec == AlertInit /\ [][AlertNext]_vars

Subs == 1..Len(subs)
StrictlyIncreasing(xs) == \A i \in 1..Len(xs) - 1 : xs[i] < xs[i + 1]

\* C1: at most one combined subscription is active in every reachable state,
\* and within #createSubscription the old one is torn down before the new one
\* is made, so that two are never active at one instant; the subscription
\* #allSymbolsUnsubscribe tears down is the active one.
C1_OneActiveSubscription ==
  /\ ActiveCount(subs) <= 1
  /\ peakActive <= 1
  /\ \A k \in Subs : subs[k].active => k = allSymbolsUnsubscribe

\* C1: an interval change has torn the first subscription down and made another.
C1_Witness ==
  /\ Len(subs) >= 2
  /\ ~subs[1].active
  /\ subs[Len(subs)].active
  /\ subs[1].interval # subs[Len(subs)].interval

\* C2 as claimed: the result of a historical fetch issued under an interval
\* that is no longer the store's is discarded on arrival: it changes neither
\* the slow nor the live series of its symbol, and no gate takes it as the
\* payload of a later propagation.
C2_StaleHistoryDiscarded ==
  [][\A k \in Subs, s \in Symbols :
       (/\ subs[k].fetch[s] = "pending"
        /\ subs'[k].fetch[s] = "done"
        /\ subs[k].interval # interval)
       => /\ allCandles'[s] = allCandles[s]
          /\ realTimeCandles'[s] = realTimeCandles[s]
          /\ \A n \in 1..Len(gens) :
               gens'[n].listeners[s].lastArgs = gens[n].listeners[s].lastArgs]_vars

\* C3 as claimed: a candle callback of a subscription that has been torn
\* down, delivered from the event queue afterwards, changes no live series,
\* no slow series, no anomaly key and appends no alert.
C3_LateCallbackIgnored ==
  [][(/\ queue # <<>>
      /\ queue' = Tail(queue)
      /\ ~subs[Head(queue).sub].active)
     => UNCHANGED <<realTimeCandles, allCandles, volumeAnomalies, alertLog>>]_vars

\* C4: for one symbol within one subscription, while every streamed candle
\* has an open time equal to or greater than that of the last candle of the
\* series, the series has strictly increasing open times and as many candles
\* as distinct open times were seen (history and updates); every live series
\* is such a series of some subscription.
C4_MergeKeepsOrder ==
  /\ \A k \in Subs, s \in Symbols :
       LET data == subs[k].allCandlesData[s]
       IN (data # 0 /\ subs[k].inOrder[s])
          => /\ StrictlyIncreasing(OpenTimesOf(arrays, objects, s, data))
             /\ Len(arrays[s][data]) = Cardinality(subs[k].seen[s])
             /\ Range(OpenTimesOf(arrays, objects, s, data)) = subs[k].seen[s]
  /\ \A s \in Symbols :
       realTimeCandles[s] # 0
       => \E k \in Subs : realTimeCandles[s] = subs[k].allCandlesData[s]

\* C4: a history of one candle has been extended by a candle of a greater
\* open time, and that candle then replaced by an update of the same open time.
C4_Witness ==
  \E k \in Subs, s \in Symbols :
    /\ subs[k].inOrder[s]
    /\ realTimeCandles[s] # 0
    /\ realTimeCandles[s] = subs[k].allCandlesData[s]
    /\ Len(arrays[s]) >= 3
    /\ Len(arrays[s][1]) = 2
    /\ Len(objects[s]) = 2
    /\ OpenTimesOf(arrays, objects, s, realTimeCandles[s]) = <<1, 2>>

\* C10 as claimed: no step changes the contents of a series array that the
\* store exposes (the slow or the live series of a symbol) when the step
\* begins.
C10_ExposedSeriesNotMutated ==
  [][\A s \in Symbols :
       \A id \in {allCandles[s], realTimeCandles[s]} \ {0} :
         Series(arrays', objects', s, id) = Series(arrays, objects, s, id)]_vars

Gens == 1..Len(gens)
LeadingCalls(w) == IF w.leading THEN 1 ELSE 0

\* C5 as claimed: the N >= 1 calls of a gate that fall within one throttle
\* window (from the arming of the gate's timer to the run of its callback)
\* lead to exactly one propagation, of the payload of the last of them.
C5_OnePropagationPerWindow ==
  \A n \in Gens, s \in Symbols :
    (window[n][s].done.calls >= 1 /\ gens[n].listeners[s].timerId = -1)
    => /\ window[n][s].done.props = 1
       /\ window[n][s].done.lastProp = window[n][s].done.last

\* C5 as amended: the call that opens a window after a quiet period
\* propagates at once; the other calls of the window are coalesced into
\* exactly one further propagation, and the last propagation of the window
\* is of the payload of the last call.
C5_WindowCoalesces ==
  \A n \in Gens, s \in Symbols :
    LET w == window[n][s].done
    IN w.calls >= 1
       => /\ w.props = LeadingCalls(w) + (IF w.calls > LeadingCalls(w) THEN 1 ELSE 0)
          /\ w.lastProp = w.last
          /\ w.last # 0

\* C5: a window opened after a quiet period has closed after three calls:
\* two propagations, the second of the third call's payload.
C5_Witness ==
  \E n \in Gens, s \in Symbols :
    /\ window[n][s].done.leading
    /\ window[n][s].done.calls = 3
    /\ window[n][s].done.props = 2
    /\ allCandles[s] = window[n][s].done.last
    /\ gens[n].listeners[s].timerId = -1

\* C6 as claimed: the series written to a symbol's slow series are written in
\* the order in which they were produced (array ids grow with production):
\* no series older than the one the slow view holds is written to it.
C6_SlowSeriesInOrder ==
  [][\A s \in Symbols : allCandles'[s] >= allCandles[s]]_vars

\* C7 as claimed: over the lifetime of the store a VOLUME_ANOMALY alert is
\* triggered at most once for each (symbol, interval, open time).
C7_AnomalyFiresOnce ==
  \A s \in Symbols :
    \A i, j \in 1..Len(fired[s]) : fired[s][i] = fired[s][j] => i = j

\* C8: for the criteria alphabetically, volume and volume_change, on every
\* list of symbols and every pair of maps the store reaches, #sortSymbols with
\* direction descending (-1) yields the reverse of what it yields with
\* direction ascending (1).
C8_DescendingIsReverseOfAscending ==
  \A by \in {"alphabetically", "volume", "volume_change"} :
    SortSymbols(engine, by, -1, symbols, futuresExchangeSymbolsMap, volumes, priceChangePercents)
      = Reverse(SortSymbols(engine, by, 1, symbols, futuresExchangeSymbolsMap, volumes,
                            priceChangePercents))

\* C8: three symbols are ranked by volume, two of them with equal volumes
\* (one missing, one not numeric) and one with a greater volume.
C8_Witness ==
  /\ Len(symbols) = 3
  /\ sortBy = "volume"
  /\ \E a, b, c \in Symbols :
       /\ a # b
       /\ volumes[a] = Undefined
       /\ volumes[b] = <<"x">>
       /\ MetricOf(volumes, c).v > 0
       /\ symbols[3] = c

\* C9: the alert log never has more than 100 entries, and each call of
\* triggerAlert leaves the entry it created at index 0, followed by the
\* previous entries in their previous order, only the oldest dropped when the
\* log was full.
C9_AlertLogCappedNewestFirst ==
  /\ [](Len(alertLog) <= 100)
  /\ [][alerted' # alerted =>
          \E type \in AlertTypes, s \in Symbols :
            /\ alertLog'[1] = LogItem(type, s, realTimeCandles', arrays', objects')
            /\ Tail(alertLog') = SubSeq(alertLog, 1, Len(alertLog') - 1)
            /\ Len(alertLog') = IF Len(alertLog) = 100 THEN 100 ELSE Len(alertLog) + 1]_vars

\* C9: two alerts were triggered on a full persisted log, the newest on a
\* symbol with a live candle: the two oldest entries are gone.
C9_Witness ==
  /\ alerted >= 2
  /\ Len(alertLog) = 100
  /\ alertLog[1].price = ClosePrice
  /\ alertLog[100] = PersistedItem(3)

\* C11: in every reachable state, every series in the live view and every
\* series in the slow view consists of candles of one interval: none holds a
\* candle of the old interval and a candle of the new one.
C11_SeriesOfOneInterval ==
  \A s \in Symbols :
    \A id \in {allCandles[s], realTimeCandles[s]} \ {0} :
      \A i, j \in 1..Len(arrays[s][id]) :
        objects[s][arrays[s][id][i]].interval = objects[s][arrays[s][id][j]].interval

\* C11: after an interval change, the live series of a symbol that had a
\* series under the old interval holds two candles of the new interval.
C11_Witness ==
  \E s \in Symbols :
    /\ Len(subs) = 2
    /\ subs[1].interval # subs[2].interval
    /\ subs[1].allCandlesData[s] # 0
    /\ arrays[s][subs[1].allCandlesData[s]] # <<>>
    /\ realTimeCandles[s] # 0
    /\ realTimeCandles[s] = subs[2].allCandlesData[s]
    /\ Len(arrays[s][realTimeCandles[s]]) >= 2
    /\ Last(Series(arrays, objects, s, realTimeCandles[s])).interval = interval

\* The key of the criterion by for symbol x: its place in the alphabet, its
\* current volume or its current price-change percent.
KeyOf(by, x) ==
  CASE by = "alphabetically" -> Num(AlphabetIndex(x))
    [] by = "volume" -> MetricOf(volumes, x)
    [] by = "volume_change" -> MetricOf(priceChangePercents, x)

\* C12: once the metadata has loaded, in every state reached by changes of
\* sortBy and sortDirection and by ticker batches, the exposed symbols are a
\* permutation of the loaded ids and, under the criteria alphabetically,
\* volume and volume_change, they are ordered by the criterion's current key
\* in the current direction (no symbol precedes one that the direction puts
\* before it): the re-sort is part of the step that changes the criterion,
\* the direction or the metric.
C12_SymbolsSortedByCriterion ==
  (ready /\ futuresExchangeSymbolsMap # <<>>)
  => /\ Len(symbols) = Len(futuresExchangeSymbolsMap)
     /\ Range(symbols) = Range(futuresExchangeSymbolsMap)
     /\ sortBy \in {"alphabetically", "volume", "volume_change"}
        => \A i \in 1..Len(symbols) - 1 :
             IF sortDirection = 1
             THEN ~Greater(KeyOf(sortBy, symbols[i]), KeyOf(sortBy, symbols[i + 1]))
             ELSE ~Greater(KeyOf(sortBy, symbols[i + 1]), KeyOf(sortBy, symbols[i]))

\* C12: the three loaded symbols are ranked by price-change percent, every
\* symbol has a percent from the ticker, the percents differ and the list is
\* not in load order.
C12_Witness ==
  /\ ready
  /\ sortBy = "volume_change"
  /\ Len(symbols) = 3
  /\ symbols # futuresExchangeSymbolsMap
  /\ \A x \in Symbols : priceChangePercents[x] # Undefined
  /\ \E x, y \in Symbols : Greater(KeyOf(sortBy, x), KeyOf(sortBy, y))

\* C13 as claimed: every streamed candle delivered by the active subscription
\* for one of its symbols is merged in the step of its delivery and the merged
\* series, ending with that candle, becomes the symbol's live series, whether
\* the symbol's historical fetch is pending, completed or failed.
C13_StreamedCandleBecomesLive ==
  [][(/\ queue # <<>>
      /\ queue' = Tail(queue)
      /\ subs[Head(queue).sub].active)
     => LET m == Head(queue)
        IN /\ realTimeCandles'[m.symbol] # 0
           /\ realTimeCandles'[m.symbol] = subs'[m.sub].allCandlesData[m.symbol]
           /\ Series(arrays', objects', m.symbol, realTimeCandles'[m.symbol]) # <<>>
           /\ Last(Series(arrays', objects', m.symbol, realTimeCandles'[m.symbol])) = m.candle]_vars

\* C14 as claimed: when the current series of a symbol is empty (its history
\* came back empty), a streamed candle for the symbol completes the callback
\* and leaves the one-element series of that candle as the live series.
C14_EmptySeriesTakesCandle ==
  [][(/\ queue # <<>>
      /\ queue' = Tail(queue)
      /\ subs[Head(queue).sub].allCandlesData[Head(queue).symbol] # 0
      /\ arrays[Head(queue).symbol][subs[Head(queue).sub].allCandlesData[Head(queue).symbol]]
           = <<>>)
     => LET m == Head(queue)
        IN /\ realTimeCandles'[m.symbol] # 0
           /\ Series(arrays', objects', m.symbol, realTimeCandles'[m.symbol]) = <<m.candle>>]_vars

\* C15 as claimed: a gate that a change of throttleDelay has replaced never
\* writes to the slow series afterwards: the step in which a replaced gate
\* gives up its pending series leaves the slow series as it is.
C15_ReplacedGateNeverWrites ==
  [][\A n \in Gens, s \in Symbols :
       (/\ n # throttledListeners
        /\ gens[n].listeners[s].lastArgs # 0
        /\ gens'[n].listeners[s].lastArgs = 0)
       => allCandles'[s] = allCandles[s]]_vars

\* C16 as claimed: with the anomaly check on (ratio > 0) and a window size
\* W >= 1, a streamed candle that is merged triggers the alert iff the mean
\* of the volumes of the last min(W, k) of the k candles that precede it in
\* the merged series, times the ratio, is below its volume (never when
\* k = 0) and its (interval, open time) key has not fired for the symbol.
C16_AnomalyOverPrecedingWindow ==
  [][(/\ queue # <<>>
      /\ queue' = Tail(queue)
      /\ ~CallbackStops(Head(queue).sub, Head(queue).symbol)
      /\ ~anomalyRatio.nan /\ anomalyRatio.v > 0
      /\ candlesSize >= 1)
     => LET m == Head(queue)
            merged == Series(arrays', objects', m.symbol, realTimeCandles'[m.symbol])
            k == Len(merged) - 1
            preceding == SubSeq(merged, k - Min(candlesSize, k) + 1, k)
            alreadyFired == \E i \in 1..Len(fired[m.symbol]) :
                               fired[m.symbol][i] = AnomalyKey(m.candle)
        IN (fired'[m.symbol] # fired[m.symbol])
           <=> (/\ k > 0
                /\ AboveAverage(preceding, anomalyRatio, m.candle.volume)
                /\ ~alreadyFired)]_vars

\* C17 as claimed: descending being the sortDirection under which the
\* criterion volume ranks the volumes {A: 10, B: 30, C: 20} as [B, C, A], the
\* criterion none yields the reverse of the load order when the direction is
\* descending and the load order when it is ascending.
C17_NoneFollowsDirection ==
  LET scenario == [x \in Symbols |->
                     CASE x = "A" -> <<"1", "0">> [] x = "B" -> <<"3", "0">> [] OTHER -> <<"2", "0">>]
      descending == CHOOSE d \in SortDirections :
                      SortSymbols(engine, "volume", d, <<"A", "B", "C">>, <<"A", "B", "C">>,
                                  scenario, scenario) = <<"B", "C", "A">>
  IN (ready /\ futuresExchangeSymbolsMap # <<>> /\ sortBy = "none")
     => symbols = IF sortDirection = descending
                  THEN Reverse(futuresExchangeSymbolsMap)
                  ELSE futuresExchangeSymbolsMap

\* C18 as claimed: when #sortSymbols runs at startup (the metadata has
\* arrived) with a sortBy it does not support, the error is not suppressed
\* and startup does not carry on: the store does not become ready and makes
\* neither throttled listeners nor a subscription.
C18_UnsupportedSortStopsStartup ==
  [][(/\ ~ready
      /\ futuresExchangeSymbolsMap' # <<>>
      /\ SortThrows(sortBy))
     => (~ready' /\ gens' = gens /\ subs' = subs)]_vars

\* C19: under one interval, the step in which a symbol's historical snapshot
\* is applied (the subscription's series of the symbol is set while no
\* callback runs) finds no streamed candle merged for the symbol yet and
\* leaves the live series alone: no series holding a live update is replaced
\* and no merged candle is lost.
C19_SnapshotNeverReplacesLive ==
  [][\A k \in Subs, s \in Symbols :
       (/\ subs'[k].allCandlesData[s] # subs[k].allCandlesData[s]
        /\ queue' = queue)
       => /\ realTimeCandles[s] = 0
          /\ realTimeCandles'[s] = 0]_vars

\* C19: a streamed candle was delivered before the snapshot (and dropped),
\* the snapshot of one candle was applied, and a second streamed candle was
\* merged into it.
C19_Witness ==
  \E s \in Symbols :
    /\ Len(subs) = 1
    /\ subs[1].fetch[s] = "done"
    /\ sent = 2
    /\ queue = <<>>
    /\ Len(arrays[s]) = 2
    /\ realTimeCandles[s] = 2
    /\ OpenTimesOf(arrays, objects, s, 2) = <<1, 2>>

\* C20: with interval and throttleDelay unchanged and timers fair, whenever a
\* streamed candle has been merged into the live series of a symbol, the slow
\* series of the symbol eventually is the live series (the same array): the
\* slow view does not stay behind for ever.
C20_SlowCatchesUp ==
  \A s \in Symbols :
    (realTimeCandles[s] # 0) ~> (allCandles[s] = realTimeCandles[s])

\* C20: a streamed candle was held back by the gate and the gate's timer has
\* written it: the slow series is the live series.
C20_Witness ==
  \E s \in Symbols :
    /\ realTimeCandles[s] # 0
    /\ allCandles[s] = realTimeCandles[s]
    /\ gens[1].listeners[s].timerId = -1
    /\ window[1][s].done.calls >= 2
    /\ window[1][s].done.lastProp = realTimeCandles[s]
    /\ sent = MaxMsgs
    /\ queue = <<>>

====
